---- MODULE Spec2Model ----
(***************************************************************************)
(* Chunked CSV filter pipeline of tabular_pipelines/main.ipynb.            *)
(*                                                                         *)
(* Two of the notebook's runs are modelled:                                *)
(*   sequential  process() of cell 20: for each chunk of read_csv(...,     *)
(*               chunksize=...), four successive boolean masks, then       *)
(*               to_csv(mode="a").                                         *)
(*   concurrent  cell 22: the main process enumerates the same chunk       *)
(*               iterator and hands every chunk to Pool(processes=3) with  *)
(*               apply_async; each worker filters its chunk and appends    *)
(*               it under the module level Lock l.                         *)
(*                                                                         *)
(* The input file is a sequence of raw rows (fields are text); the reader  *)
(* coerces the fields of the rows of one chunk (dtype=, parse_dates=).     *)
(* Only the four columns the masks read are kept, plus the DataFrame index *)
(* idx of the row (0-based position in the file), which to_csv(index=False)*)
(* does not write but which identifies the row in the properties.          *)
(***************************************************************************)
EXTENDS Integers, Sequences, FiniteSets, Bags, TLC

VARIABLES
    mode,         \* "sequential" (cell 20) or "concurrent" (cell 22)
    input,        \* data rows of dummy_data.csv, raw text fields
    chunksize,    \* read_csv(chunksize=...)
    out0,         \* content of processed_chunks.csv when the run starts
    output,       \* content of processed_chunks.csv (rows appended, mode="a")
    pos,          \* reader: data rows consumed so far
    first_chunk,  \* reader: pandas' _first_chunk (no read has returned yet)
    emitted,      \* history: the chunks the reader has yielded, in order
    pcMain,       \* position of the main process
    err,          \* exception that reached the main process ("none" if none)
    chunk,        \* sequential: the chunk bound by the for loop
    buf,          \* sequential: rows of col_100_lt_05 to_csv has not written yet
    taskq,        \* concurrent: the pool's task queue (apply_async), FIFO
    wpc,          \* concurrent: position of each pool worker
    wtask,        \* concurrent: (chunk, i) the worker is running process on
    wbuf,         \* concurrent: rows of col_100_lt_05 to_csv has not written yet
    l,            \* concurrent: the Lock l, TRUE while acquired
    failLen       \* history: Len(output) when a to_csv raised, -1 if none did

vars == <<mode, input, chunksize, out0, output, pos, first_chunk, emitted,
          pcMain, err, chunk, buf, taskq, wpc, wtask, wbuf, l, failLen>>

readerVars == <<pos, first_chunk, emitted>>
poolVars == <<taskq, wpc, wtask, wbuf, l>>
configVars == <<mode, input, chunksize, out0>>

(***************************************************************************)
(* Bounds of the model.                                                    *)
(***************************************************************************)
MaxRows == 4
MaxChunk == 2
MaxBatch == 3

\* Pool(processes=3)
W == 3

Workers == 1..W

Min(a, b) == IF a <= b THEN a ELSE b

(***************************************************************************)
(* Coercion of the text fields (read_csv dtype=dtypes, parse_dates).       *)
(* Dates are held as the number yyyymmdd, col_100 in tenths.               *)
(***************************************************************************)
DateLits == {"1990-12-24", "1990-12-25"}
IntLits == {"0", "1", "50", "51"}
FloatLits == {"0.4", "0.5"}

ParseDate(s) ==
    CASE s = "1990-12-24" -> 19901224
      [] s = "1990-12-25" -> 19901225

ParseInt(s) ==
    CASE s = "0" -> 0
      [] s = "1" -> 1
      [] s = "50" -> 50
      [] s = "51" -> 51

ParseFloat(s) ==
    CASE s = "0.4" -> 4
      [] s = "0.5" -> 5

\* A raw row the C parser can convert under dtypes: every int32 and float32
\* column holds a literal of its type.  Otherwise read_csv raises ValueError.
Coercible(raw) ==
    /\ raw.col_2 \in IntLits
    /\ raw.col_3 \in IntLits
    /\ raw.col_100 \in FloatLits

Coerce(raw, i) ==
    [idx |-> i,
     col_1 |-> ParseDate(raw.col_1),
     col_2 |-> ParseInt(raw.col_2),
     col_3 |-> ParseInt(raw.col_3),
     col_100 |-> ParseFloat(raw.col_100)]

(***************************************************************************)
(* The four masks of process().                                            *)
(***************************************************************************)
Mask_col_1(r) == r.col_1 <= ParseDate("1990-12-24")
Mask_col_2(r) == r.col_2 > 0
Mask_col_3(r) == r.col_3 > 50
Mask_col_100(r) == r.col_100 < ParseFloat("0.5")

before_date(df) == SelectSeq(df, Mask_col_1)
col2_gt_0(df) == SelectSeq(df, Mask_col_2)
\* Mutant: the third mask is taken on col_2 (a mistyped column name).
col3_gt_50_on_col_2(df) == SelectSeq(df, LAMBDA r : r.col_2 > 50)

col3_gt_50(df) == SelectSeq(df, Mask_col_3)
col_100_lt_05(df) == SelectSeq(df, Mask_col_100)

Filtration(df) == col_100_lt_05(col3_gt_50(col2_gt_0(before_date(df))))

(***************************************************************************)
(* The chunk iterator read_csv(..., chunksize=chunksize).                  *)
(***************************************************************************)
ChunkEnd == Min(pos + chunksize, Len(input))

\* Mutant: the end of the file is noticed only by a read that comes back short.
ExhaustedAfterShortRead ==
    /\ pos >= Len(input) /\ ~first_chunk
    /\ Len(emitted[Len(emitted)]) < chunksize

\* next(iterator) raises StopIteration.  On a file with no data row the
\* first read returns an empty frame (pandas' _first_chunk).
Exhausted == pos >= Len(input) /\ ~first_chunk

\* The rows of the next read hold a field that cannot be converted.
ReadRaises == \E k \in (pos + 1)..ChunkEnd : ~Coercible(input[k])

\* Mutant: the rows of a chunk come out in reverse.
NextChunkReversed == [k \in 1..(ChunkEnd - pos) |-> Coerce(input[ChunkEnd - k + 1], ChunkEnd - k)]

NextChunk == [k \in 1..(ChunkEnd - pos) |-> Coerce(input[pos + k], pos + k - 1)]

ReadChunk ==
    /\ ~Exhausted
    /\ ~ReadRaises
    /\ pos' = ChunkEnd
    /\ first_chunk' = FALSE
    /\ emitted' = Append(emitted, NextChunk)

(***************************************************************************)
(* Inputs.                                                                 *)
(***************************************************************************)
RawPass == [col_1 |-> "1990-12-24", col_2 |-> "1", col_3 |-> "51", col_100 |-> "0.4"]
RawDrop == [col_1 |-> "1990-12-24", col_2 |-> "1", col_3 |-> "50", col_100 |-> "0.4"]
RawBad == [col_1 |-> "1990-12-24", col_2 |-> "xyz", col_3 |-> "51", col_100 |-> "0.4"]

RawPool == {RawPass, RawDrop, RawBad}

Inputs == UNION {[1..n -> RawPool] : n \in 0..MaxRows}

\* A row left in processed_chunks.csv by an earlier run.
OldRow == Coerce(RawPass, -1)

PriorOutputs == {<<>>, <<OldRow>>}

\* What an earlier run of process() over the same file has left in a file
\* that was empty before it (none if that run raised).
EarlierRun(file) ==
    IF \A k \in DOMAIN file : Coercible(file[k])
        THEN {Filtration([k \in DOMAIN file |-> Coerce(file[k], k - 1)])}
        ELSE {}

NoTask == [i |-> -1, chunk |-> <<>>]

Init ==
    /\ mode \in {"sequential", "concurrent"}
    /\ input \in Inputs
    /\ chunksize \in 1..MaxChunk
    /\ out0 \in PriorOutputs \cup EarlierRun(input)
    /\ output = out0
    /\ pos = 0
    /\ first_chunk = TRUE
    /\ emitted = <<>>
    /\ pcMain = IF mode = "sequential" THEN "Idle" ELSE "Dispatching"
    /\ err = "none"
    /\ chunk = <<>>
    /\ buf = <<>>
    /\ taskq = <<>>
    /\ wpc = [w \in Workers |-> "idle"]
    /\ wtask = [w \in Workers |-> NoTask]
    /\ wbuf = [w \in Workers |-> <<>>]
    /\ l = FALSE
    /\ failLen = -1

(***************************************************************************)
(* Sequential mode: process() of cell 20.                                  *)
(***************************************************************************)
\* process() is called: the for loop asks the iterator for its first chunk.
SeqStart ==
    /\ mode = "sequential" /\ pcMain = "Idle"
    /\ pcMain' = "Reading"
    /\ UNCHANGED <<configVars, output, readerVars, err, chunk, buf, poolVars, failLen>>

\* next(iterator) yields a chunk.
SeqRead ==
    /\ mode = "sequential" /\ pcMain = "Reading"
    /\ ReadChunk
    /\ chunk' = NextChunk
    /\ pcMain' = "Filtering"
    /\ UNCHANGED <<configVars, output, err, buf, poolVars, failLen>>

\* Mutant: a chunk that cannot be converted is dropped and the loop goes on.
SeqReadSkipBatch ==
    /\ mode = "sequential" /\ pcMain = "Reading"
    /\ ~Exhausted /\ ReadRaises
    /\ pos' = ChunkEnd
    /\ first_chunk' = FALSE
    /\ UNCHANGED <<configVars, output, emitted, pcMain, err, chunk, buf, poolVars, failLen>>

\* next(iterator) raises ValueError: the exception leaves process().
SeqReadRaise ==
    /\ mode = "sequential" /\ pcMain = "Reading"
    /\ ~Exhausted /\ ReadRaises
    /\ pcMain' = "Raised"
    /\ err' = "ValueError"
    /\ UNCHANGED <<configVars, output, readerVars, chunk, buf, poolVars, failLen>>

\* next(iterator) raises StopIteration: the for loop ends.
SeqDrain ==
    /\ mode = "sequential" /\ pcMain = "Reading"
    /\ Exhausted
    /\ pcMain' = "Drained"
    /\ UNCHANGED <<configVars, output, readerVars, err, chunk, buf, poolVars, failLen>>

\* The four masks; to_csv is entered with the surviving rows.
SeqFilter ==
    /\ mode = "sequential" /\ pcMain = "Filtering"
    /\ buf' = Filtration(chunk)
    /\ chunk' = <<>>
    /\ pcMain' = "Writing"
    /\ UNCHANGED <<configVars, output, readerVars, err, poolVars, failLen>>

\* Mutant: the file is opened with mode="w", each to_csv starts it afresh.
SeqWriteRowTruncating ==
    /\ mode = "sequential" /\ pcMain = "Writing"
    /\ buf # <<>>
    /\ output' = IF buf = Filtration(emitted[Len(emitted)])
                    THEN <<Head(buf)>> ELSE Append(output, Head(buf))
    /\ buf' = Tail(buf)
    /\ UNCHANGED <<configVars, readerVars, pcMain, err, chunk, poolVars, failLen>>

\* Mutant: the row is written at the start of the file.
SeqWriteRowAtFront ==
    /\ mode = "sequential" /\ pcMain = "Writing"
    /\ buf # <<>>
    /\ output' = <<Head(buf)>> \o output
    /\ buf' = Tail(buf)
    /\ UNCHANGED <<configVars, readerVars, pcMain, err, chunk, poolVars, failLen>>

\* to_csv appends the next row of the frame to the file.
SeqWriteRow ==
    /\ mode = "sequential" /\ pcMain = "Writing"
    /\ buf # <<>>
    /\ output' = Append(output, Head(buf))
    /\ buf' = Tail(buf)
    /\ UNCHANGED <<configVars, readerVars, pcMain, err, chunk, poolVars, failLen>>

\* to_csv raises (open, write or close fails): the exception leaves process().
SeqWriteFail ==
    /\ mode = "sequential" /\ pcMain = "Writing"
    /\ pcMain' = "Raised"
    /\ err' = "WriteError"
    /\ failLen' = Len(output)
    /\ buf' = <<>>
    /\ UNCHANGED <<configVars, output, readerVars, chunk, poolVars>>

\* Mutant: the loop goes on before to_csv has written the whole frame.
SeqWriteReturnEarly ==
    /\ mode = "sequential" /\ pcMain = "Writing"
    /\ pcMain' = "Reading"
    /\ buf' = <<>>
    /\ UNCHANGED <<configVars, output, readerVars, err, chunk, poolVars, failLen>>

\* Mutant: to_csv of a frame without rows leaves an empty line in the file.
SeqWriteReturnBlankLine ==
    /\ mode = "sequential" /\ pcMain = "Writing"
    /\ buf = <<>>
    /\ output' = IF Filtration(emitted[Len(emitted)]) = <<>>
                    THEN Append(output, [idx |-> -1, col_1 |-> 0, col_2 |-> 0, col_3 |-> 0, col_100 |-> 0])
                    ELSE output
    /\ pcMain' = "Reading"
    /\ UNCHANGED <<configVars, readerVars, err, chunk, buf, poolVars, failLen>>

\* to_csv returns: the loop asks for the next chunk.
SeqWriteReturn ==
    /\ mode = "sequential" /\ pcMain = "Writing"
    /\ buf = <<>>
    /\ pcMain' = "Reading"
    /\ UNCHANGED <<configVars, output, readerVars, err, chunk, buf, poolVars, failLen>>

\* print(...): process() returns.
SeqFinish ==
    /\ mode = "sequential" /\ pcMain = "Drained"
    /\ pcMain' = "Done"
    /\ UNCHANGED <<configVars, output, readerVars, err, chunk, buf, poolVars, failLen>>

(***************************************************************************)
(* Concurrent mode: cell 22.                                               *)
(***************************************************************************)
\* One turn of "for i,chunk in enumerate(iterator): pool.apply_async(...)".
\* apply_async puts the task on the pool's queue and returns at once; the
\* AsyncResult it returns is dropped.
CoordDispatch ==
    /\ mode = "concurrent" /\ pcMain = "Dispatching"
    /\ ReadChunk
    /\ taskq' = Append(taskq, [i |-> Len(emitted), chunk |-> NextChunk])
    /\ UNCHANGED <<configVars, output, pcMain, err, chunk, buf, wpc, wtask, wbuf, l, failLen>>

\* next(iterator) raises ValueError in the main process: the cell stops,
\* pool.close() and pool.join() are not reached.  The workers live on.
CoordReadRaise ==
    /\ mode = "concurrent" /\ pcMain = "Dispatching"
    /\ ~Exhausted /\ ReadRaises
    /\ pcMain' = "Raised"
    /\ err' = "ValueError"
    /\ UNCHANGED <<configVars, output, readerVars, chunk, buf, poolVars, failLen>>

\* StopIteration ends the loop; pool.close(); pool.join() is entered.
CoordClose ==
    /\ mode = "concurrent" /\ pcMain = "Dispatching"
    /\ Exhausted
    /\ pcMain' = "Joining"
    /\ UNCHANGED <<configVars, output, readerVars, err, chunk, buf, poolVars, failLen>>

\* pool.join() returns: the queue is drained and every worker has left its
\* last task (a closed pool's workers exit once no task is left).
CoordJoin ==
    /\ mode = "concurrent" /\ pcMain = "Joining"
    /\ taskq = <<>>
    /\ \A w \in Workers : wpc[w] = "idle"
    /\ pcMain' = "Done"
    /\ UNCHANGED <<configVars, output, readerVars, err, chunk, buf, poolVars, failLen>>

\* Mutant: the task is read but left on the queue.
WorkerTakeNoPop(w) ==
    /\ mode = "concurrent" /\ wpc[w] = "idle"
    /\ taskq # <<>>
    /\ wtask' = [wtask EXCEPT ![w] = Head(taskq)]
    /\ wpc' = [wpc EXCEPT ![w] = "filter"]
    /\ UNCHANGED <<configVars, output, readerVars, pcMain, err, chunk, buf, taskq, wbuf, l, failLen>>

\* An idle worker takes the oldest task and calls process(chunk, i).
WorkerTake(w) ==
    /\ mode = "concurrent" /\ wpc[w] = "idle"
    /\ taskq # <<>>
    /\ wtask' = [wtask EXCEPT ![w] = Head(taskq)]
    /\ taskq' = Tail(taskq)
    /\ wpc' = [wpc EXCEPT ![w] = "filter"]
    /\ UNCHANGED <<configVars, output, readerVars, pcMain, err, chunk, buf, wbuf, l, failLen>>

\* The four masks.
WorkerFilter(w) ==
    /\ wpc[w] = "filter"
    /\ wbuf' = [wbuf EXCEPT ![w] = Filtration(wtask[w].chunk)]
    /\ wpc' = [wpc EXCEPT ![w] = "acquire"]
    /\ UNCHANGED <<configVars, output, readerVars, pcMain, err, chunk, buf, taskq, wtask, l, failLen>>

\* Mutant: the lock is taken without waiting for it to be free.
WorkerAcquireNoWait(w) ==
    /\ wpc[w] = "acquire"
    /\ l' = TRUE
    /\ wpc' = [wpc EXCEPT ![w] = "write"]
    /\ UNCHANGED <<configVars, output, readerVars, pcMain, err, chunk, buf, taskq, wtask, wbuf, failLen>>

\* l.acquire() returns once the lock is free.
WorkerAcquire(w) ==
    /\ wpc[w] = "acquire"
    /\ ~l
    /\ l' = TRUE
    /\ wpc' = [wpc EXCEPT ![w] = "write"]
    /\ UNCHANGED <<configVars, output, readerVars, pcMain, err, chunk, buf, taskq, wtask, wbuf, failLen>>

\* Mutant: the lock covers only the first row of the frame.
WorkerWriteRowUnlocking(w) ==
    /\ wpc[w] = "write"
    /\ wbuf[w] # <<>>
    /\ output' = Append(output, Head(wbuf[w]))
    /\ wbuf' = [wbuf EXCEPT ![w] = Tail(wbuf[w])]
    /\ l' = FALSE
    /\ UNCHANGED <<configVars, readerVars, pcMain, err, chunk, buf, taskq, wpc, wtask, failLen>>

\* to_csv appends the next row of the frame to the file.
WorkerWriteRow(w) ==
    /\ wpc[w] = "write"
    /\ wbuf[w] # <<>>
    /\ output' = Append(output, Head(wbuf[w]))
    /\ wbuf' = [wbuf EXCEPT ![w] = Tail(wbuf[w])]
    /\ UNCHANGED <<configVars, readerVars, pcMain, err, chunk, buf, taskq, wpc, wtask, l, failLen>>

\* to_csv raises inside process(): l.release() is skipped, the pool's worker
\* loop catches the exception, stores it in the task's AsyncResult (which
\* nobody holds) and waits for the next task.
WorkerWriteFail(w) ==
    /\ wpc[w] = "write"
    /\ failLen' = Len(output)
    /\ wpc' = [wpc EXCEPT ![w] = "idle"]
    /\ wtask' = [wtask EXCEPT ![w] = NoTask]
    /\ wbuf' = [wbuf EXCEPT ![w] = <<>>]
    /\ UNCHANGED <<configVars, output, readerVars, pcMain, err, chunk, buf, taskq, l>>

\* to_csv returns; l.release(); print(...); process() returns.
WorkerRelease(w) ==
    /\ wpc[w] = "write"
    /\ wbuf[w] = <<>>
    /\ l' = FALSE
    /\ wpc' = [wpc EXCEPT ![w] = "idle"]
    /\ wtask' = [wtask EXCEPT ![w] = NoTask]
    /\ UNCHANGED <<configVars, output, readerVars, pcMain, err, chunk, buf, taskq, wbuf, failLen>>

Next ==
    \/ SeqStart
    \/ SeqRead
    \/ SeqReadRaise
    \/ SeqDrain
    \/ SeqFilter
    \/ SeqWriteRow
    \/ SeqWriteFail
    \/ SeqWriteReturn
    \/ SeqFinish
    \/ CoordDispatch
    \/ CoordReadRaise
    \/ CoordClose
    \/ CoordJoin
    \/ \E w \in Workers : WorkerTake(w)
    \/ \E w \in Workers : WorkerFilter(w)
    \/ \E w \in Workers : WorkerAcquire(w)
    \/ \E w \in Workers : WorkerWriteRow(w)
    \/ \E w \in Workers : WorkerWriteFail(w)
    \/ \E w \in Workers : WorkerRelease(w)

Spec == Init /\ [][Next]_vars

(***************************************************************************)
(* The filtration alone, one mask per step, on every frame of up to        *)
(* MaxBatch rows whose four columns lie on either side of each threshold.  *)
(* chunk is the frame read, buf the frame the last mask has left.          *)
(***************************************************************************)
FilterPool ==
    {[col_1 |-> d, col_2 |-> a, col_3 |-> b, col_100 |-> f] :
        d \in DateLits, a \in {"0", "1"}, b \in {"50", "51"}, f \in FloatLits}

FilterInputs == UNION {[1..n -> FilterPool] : n \in 0..MaxBatch}

InitFilter ==
    /\ mode = "filtration"
    /\ input \in FilterInputs
    /\ chunksize = MaxBatch
    /\ out0 = <<>>
    /\ output = <<>>
    /\ pos = Len(input)
    /\ first_chunk = FALSE
    /\ emitted = <<>>
    /\ pcMain = "chunk"
    /\ err = "none"
    /\ chunk = [k \in DOMAIN input |-> Coerce(input[k], k - 1)]
    /\ buf = <<>>
    /\ taskq = <<>>
    /\ wpc = [w \in Workers |-> "idle"]
    /\ wtask = [w \in Workers |-> NoTask]
    /\ wbuf = [w \in Workers |-> <<>>]
    /\ l = FALSE
    /\ failLen = -1

FilterStep(from, to, frame) ==
    /\ mode = "filtration" /\ pcMain = from
    /\ buf' = frame
    /\ pcMain' = to
    /\ UNCHANGED <<configVars, output, readerVars, err, chunk, poolVars, failLen>>

\* before_date = chunk[chunk["col_1"] <= "1990-12-24"]
StepBeforeDate == FilterStep("chunk", "before_date", before_date(chunk))

\* col2_gt_0 = before_date[before_date["col_2"] > 0]
StepCol2 == FilterStep("before_date", "col2_gt_0", col2_gt_0(buf))

\* col3_gt_50 = col2_gt_0[col2_gt_0["col_3"] > 50]
StepCol3 == FilterStep("col2_gt_0", "col3_gt_50", col3_gt_50(buf))

\* col_100_lt_05 = col3_gt_50[col3_gt_50["col_100"] < 0.5]
StepCol100 == FilterStep("col3_gt_50", "col_100_lt_05", col_100_lt_05(buf))

NextFilter ==
    \/ StepBeforeDate
    \/ StepCol2
    \/ StepCol3
    \/ StepCol100

SpecFilter == InitFilter /\ [][NextFilter]_vars

(***************************************************************************)
(* Notions the properties use.                                             *)
(***************************************************************************)
Range(s) == {s[k] : k \in DOMAIN s}

SeqToBag(s) == [x \in Range(s) |-> Cardinality({k \in DOMAIN s : s[k] = x})]

\* The rows lo..hi of the file (1-based), coerced.
RowsOf(lo, hi) == [k \in 1..(hi - lo + 1) |-> Coerce(input[lo + k - 1], lo + k - 2)]

AllCoercible == \A k \in DOMAIN input : Coercible(input[k])

\* What this run has appended to processed_chunks.csv.
Appended == SubSeq(output, Len(out0) + 1, Len(output))

\* The chunk a row of the file belongs to (enumerate's i).
ChunkOf(r) == r.idx \div chunksize

Writing(w) == wpc[w] = "write"

\* Chunks read from the file and handed to the pool whose process() call has
\* not returned yet.
InFlight == Len(taskq) + Cardinality({w \in Workers : wpc[w] # "idle"})

\* The spec's inFlightLimit; the notebook sets none.  The smallest limit that
\* keeps every worker busy is taken.
Q == W

(***************************************************************************)
(* C1: in concurrent mode at most one worker is inside the sink write      *)
(* (between l.acquire() and l.release()) in every reachable state.         *)
(***************************************************************************)
C1_SinkMutualExclusion ==
    \A v, w \in Workers : (Writing(v) /\ Writing(w)) => v = w

\* A worker is in to_csv with rows left while another waits in l.acquire().
C1_Witness ==
    \E v, w \in Workers :
        /\ Writing(v) /\ wbuf[v] # <<>>
        /\ wpc[w] = "acquire" /\ wbuf[w] # <<>>

(***************************************************************************)
(* C2: in concurrent mode the coordinator never holds more than Q batches  *)
(* in flight (read and dispatched, not yet written).                       *)
(***************************************************************************)
C2_Backpressure == mode = "concurrent" => InFlight <= Q

(***************************************************************************)
(* C3: in both modes, once a sink write has failed no further row is       *)
(* written and the run does not end as a normal completion: the error has  *)
(* reached the main process by the time the run is over.                   *)
(***************************************************************************)
C3_WriteErrorHalts ==
    failLen # -1 =>
        /\ Len(output) = failLen
        /\ pcMain # "Done"

(***************************************************************************)
(* C4: when a concurrent run has completed (pool.join() returned) from an  *)
(* empty output, the output holds the same multiset of rows as the         *)
(* sequential result on that input, the filtered rows of the file.         *)
(***************************************************************************)
C4_SameRowsAsSequential ==
    (mode = "concurrent" /\ pcMain = "Done" /\ out0 = <<>>) =>
        SeqToBag(output) = SeqToBag(Filtration(RowsOf(1, Len(input))))

(***************************************************************************)
(* C5: a sequential run that completes from an empty output has written    *)
(* exactly the surviving rows of the input in input order; the output is   *)
(* a function of the input alone (not of the chunk size or the run).       *)
(***************************************************************************)
C5_SequentialDeterministic ==
    (mode = "sequential" /\ pcMain = "Done" /\ out0 = <<>>) =>
        output = Filtration(RowsOf(1, Len(input)))

\* A completed run over at least two chunks that dropped a row and kept rows
\* of two different chunks.
C5_Witness ==
    /\ mode = "sequential" /\ pcMain = "Done" /\ out0 = <<>>
    /\ Len(output) < Len(input)
    /\ \E a, b \in DOMAIN output : ChunkOf(output[a]) # ChunkOf(output[b])

(***************************************************************************)
(* C6: in concurrent mode the rows one batch has written form one          *)
(* contiguous block of the output, in their order in the batch.            *)
(***************************************************************************)
C6_BatchContiguous ==
    mode = "concurrent" =>
        \A a, c \in DOMAIN Appended :
            (a < c /\ ChunkOf(Appended[a]) = ChunkOf(Appended[c])) =>
                /\ Appended[a].idx < Appended[c].idx
                /\ \A b \in a..c : ChunkOf(Appended[b]) = ChunkOf(Appended[a])

\* Two rows of one batch are in the output after a batch dispatched later,
\* while a third worker still waits for the lock.
C6_Witness ==
    /\ mode = "concurrent"
    /\ \E a, c \in DOMAIN Appended :
          /\ a < c /\ ChunkOf(Appended[a]) = ChunkOf(Appended[c])
          /\ \E b \in DOMAIN Appended : b < a /\ ChunkOf(Appended[b]) > ChunkOf(Appended[a])

(***************************************************************************)
(* C7: sequential mode follows Idle -> Reading -> Filtering -> Writing ->  *)
(* Reading ... -> Drained -> Done (an exception leaves Reading or Writing  *)
(* for Raised); batch k is wholly written before batch k+1 is read, so at  *)
(* most the batch read last is not yet in the output; Done is reached only *)
(* after the end of the stream with every batch written.                   *)
(***************************************************************************)
RECURSIVE Flatten(_)
Flatten(ss) == IF ss = <<>> THEN <<>> ELSE Flatten(SubSeq(ss, 1, Len(ss) - 1)) \o ss[Len(ss)]

SeqTransitions ==
    {<<"Idle", "Reading">>, <<"Reading", "Filtering">>, <<"Filtering", "Writing">>,
     <<"Writing", "Writing">>, <<"Writing", "Reading">>, <<"Reading", "Drained">>,
     <<"Drained", "Done">>, <<"Reading", "Raised">>, <<"Writing", "Raised">>}

C7_Step == mode = "sequential" => <<pcMain, pcMain'>> \in SeqTransitions

C7_Inv ==
    mode = "sequential" =>
        /\ pcMain \in {"Reading", "Drained", "Done"} =>
              Appended = Filtration(Flatten(emitted))
        /\ pcMain = "Filtering" =>
              /\ chunk = emitted[Len(emitted)]
              /\ Appended = Filtration(Flatten(SubSeq(emitted, 1, Len(emitted) - 1)))
        /\ pcMain = "Writing" =>
              Appended \o buf = Filtration(Flatten(emitted))
        /\ pcMain \in {"Drained", "Done"} => Exhausted

C7_SequentialStateMachine == []C7_Inv /\ [][C7_Step]_vars

\* A run is Done after two or more batches, rows of the last one written.
C7_Witness ==
    /\ mode = "sequential" /\ pcMain = "Done"
    /\ Len(emitted) >= 2
    /\ Filtration(emitted[Len(emitted)]) # <<>>

(***************************************************************************)
(* C8: a row is in the filtered batch if and only if it passes all four    *)
(* predicates col_1 <= 1990-12-24, col_2 > 0, col_3 > 50, col_100 < 0.5,   *)
(* each evaluated on every row of the batch; surviving rows keep their     *)
(* input order.  The chain of masks, step by step and as the pipeline      *)
(* composes it, gives that selection.                                      *)
(***************************************************************************)
PassesAll(r) ==
    LET p1 == r.col_1 <= 19901224
        p2 == r.col_2 > 0
        p3 == r.col_3 > 50
        p4 == r.col_100 < 5
    IN  p1 /\ p2 /\ p3 /\ p4

C8_FilterStability ==
    /\ Filtration(chunk) = SelectSeq(chunk, PassesAll)
    /\ pcMain = "col_100_lt_05" =>
          /\ buf = SelectSeq(chunk, PassesAll)
          /\ \A a, b \in DOMAIN buf : a < b => buf[a].idx < buf[b].idx
          /\ \A k \in DOMAIN chunk :
                (\E a \in DOMAIN buf : buf[a] = chunk[k]) <=> PassesAll(chunk[k])

\* The chain has run on a batch in which a row fails only the third mask
\* between two rows that pass all four.
C8_Witness ==
    /\ mode = "filtration" /\ pcMain = "col_100_lt_05"
    /\ Len(buf) >= 2
    /\ \E k \in DOMAIN chunk :
          /\ Mask_col_1(chunk[k]) /\ Mask_col_2(chunk[k]) /\ Mask_col_100(chunk[k])
          /\ ~Mask_col_3(chunk[k])
          /\ buf[1].idx < chunk[k].idx /\ chunk[k].idx < buf[Len(buf)].idx

(***************************************************************************)
(* C9: on a file of R >= 1 data rows the reader yields ceil(R/B) batches,  *)
(* each of exactly B rows except the last, which has 1..B rows.            *)
(***************************************************************************)
CeilDiv(a, b) == (a + b - 1) \div b

C9_BatchSizing ==
    Len(input) > 0 =>
        /\ \A k \in DOMAIN emitted :
              /\ Len(emitted[k]) \in 1..chunksize
              /\ k < Len(emitted) => Len(emitted[k]) = chunksize
        /\ Exhausted => Len(emitted) = CeilDiv(Len(input), chunksize)

\* The stream has ended on a file whose row count is a multiple of B > 1.
C9_Witness ==
    /\ Exhausted
    /\ chunksize >= 2
    /\ Len(emitted) >= 2
    /\ Len(input) = Len(emitted) * chunksize

(***************************************************************************)
(* C10 as stated: a row that fails coercion is skipped, the run goes on to *)
(* its end and the output is that of the input without the row.            *)
(***************************************************************************)
Line(r) == [col_1 |-> r.col_1, col_2 |-> r.col_2, col_3 |-> r.col_3, col_100 |-> r.col_100]

Lines(s) == [k \in DOMAIN s |-> Line(s[k])]

WithoutBad == SelectSeq(input, Coercible)

C10_BadRowSkipped ==
    (mode = "sequential" /\ ~AllCoercible /\ failLen = -1 /\ pcMain \in {"Done", "Raised"}) =>
        /\ pcMain = "Done"
        /\ Lines(Appended) =
              Lines(Filtration([k \in DOMAIN WithoutBad |-> Coerce(WithoutBad[k], k - 1)]))

(***************************************************************************)
(* C10 amended: a row that fails coercion of an int32 or float32 column is *)
(* fatal.  The read of the batch that holds it raises ValueError in the    *)
(* main process; the run never completes; no row of that batch or of a     *)
(* later one is ever written; in sequential mode the output then holds the *)
(* surviving rows of the batches before it.                                *)
(***************************************************************************)
FirstBad == CHOOSE k \in DOMAIN input :
    ~Coercible(input[k]) /\ \A j \in 1..(k - 1) : Coercible(input[j])

BadChunkStart == ((FirstBad - 1) \div chunksize) * chunksize

C10_BadRowIsFatal ==
    ~AllCoercible =>
        /\ pcMain # "Done"
        /\ \A k \in DOMAIN Appended : Appended[k].idx < BadChunkStart
        /\ err = "ValueError" => pos = BadChunkStart
        /\ (mode = "sequential" /\ err = "ValueError") =>
              Appended = Filtration(RowsOf(1, BadChunkStart))

\* The sequential run has stopped on the bad row with rows of an earlier
\* batch written and a surviving row after the bad one never read.
C10_Witness ==
    /\ mode = "sequential" /\ err = "ValueError"
    /\ Appended # <<>>
    /\ \E k \in DOMAIN input : k > FirstBad /\ input[k] = RawPass

(***************************************************************************)
(* C11 as stated: once the reader has stopped, the batches it yielded,     *)
(* concatenated in emission order, are the data rows of the input less     *)
(* the rows that fail coercion, in input order.                            *)
(***************************************************************************)
ReaderStopped == Exhausted \/ err = "ValueError"

C11_BatchesAreInputLessBadRows ==
    ReaderStopped =>
        Lines(Flatten(emitted)) =
            Lines([k \in DOMAIN WithoutBad |-> Coerce(WithoutBad[k], k - 1)])

(***************************************************************************)
(* C11 amended: the batches yielded so far, concatenated in emission       *)
(* order, are always the first pos data rows of the input, each once and   *)
(* in input order; they are all the data rows once the stream has ended,   *)
(* and the rows before the batch of the first row that fails coercion      *)
(* when the read has raised (no row is skipped).                           *)
(***************************************************************************)
C11_BatchCompleteness ==
    mode \in {"sequential", "concurrent"} =>
        /\ Flatten(emitted) = RowsOf(1, pos)
        /\ Exhausted => pos = Len(input)
        /\ err = "ValueError" => Flatten(emitted) = RowsOf(1, BadChunkStart)

\* The stream has ended after a full batch and a short last one.
C11_Witness ==
    /\ Exhausted
    /\ Len(emitted) >= 2
    /\ Len(emitted[Len(emitted)]) < chunksize

(***************************************************************************)
(* C12: the sink lock is held only while a worker writes its own batch: in *)
(* every reachable state in which l is held some worker is inside to_csv;  *)
(* a worker that is filtering, waiting, or back from its write does not    *)
(* hold it, and the main process never does.                               *)
(***************************************************************************)
C12_LockOnlyWhileWriting == l => \E w \in Workers : Writing(w)

(***************************************************************************)
(* C13: in concurrent mode only the main process reads; batches are        *)
(* dispatched one at a time in emission order (task i carries the i-th     *)
(* batch yielded, the queue is in that order, workers run older tasks than *)
(* the queue holds, no batch is run by two workers), and at most W = 3     *)
(* batches are in the filter-or-write stage at once.                       *)
(***************************************************************************)
Busy == {w \in Workers : wpc[w] # "idle"}

C13_SingleReaderOrderedDispatch ==
    mode = "concurrent" =>
        /\ \A k \in DOMAIN taskq :
              /\ taskq[k].i = Len(emitted) - Len(taskq) + k - 1
              /\ taskq[k].chunk = emitted[taskq[k].i + 1]
        /\ \A w \in Busy :
              /\ wtask[w].i \in 0..(Len(emitted) - Len(taskq) - 1)
              /\ wtask[w].chunk = emitted[wtask[w].i + 1]
        /\ \A v, w \in Busy : wtask[v].i = wtask[w].i => v = w
        /\ Cardinality({wtask[w].i : w \in Busy}) <= 3
        /\ chunk = <<>> /\ buf = <<>>

\* All three workers run a batch each while a fourth waits on the queue.
C13_Witness ==
    /\ mode = "concurrent"
    /\ Cardinality(Busy) = 3
    /\ taskq # <<>>

(***************************************************************************)
(* C14: a state is reachable in concurrent mode in which a batch           *)
(* dispatched later is in the output before a batch dispatched earlier     *)
(* (C14_Witness).  The formula gives the other side: the output leaves the *)
(* dispatch order only in concurrent mode with two or more batches.        *)
(***************************************************************************)
OutOfDispatchOrder ==
    \E a, b \in DOMAIN Appended : a < b /\ ChunkOf(Appended[a]) > ChunkOf(Appended[b])

C14_ReorderingOnlyConcurrent ==
    OutOfDispatchOrder => (mode = "concurrent" /\ W > 1 /\ Len(emitted) >= 2)

\* A concurrent run in which no write failed has completed with a later
\* batch written before an earlier one.
C14_Witness ==
    /\ mode = "concurrent" /\ pcMain = "Done" /\ failLen = -1
    /\ OutOfDispatchOrder

(***************************************************************************)
(* C15 as stated: running the pipeline a second time on the output the     *)
(* first run left (not truncated) gives an output different from that of   *)
(* the single run.                                                         *)
(***************************************************************************)
C15_SecondRunDiffers ==
    (mode = "sequential" /\ pcMain = "Done" /\ out0 \in EarlierRun(input)) =>
        output # out0

(***************************************************************************)
(* C15 amended: the sink is append-only in both modes: no step changes or  *)
(* removes a row already in the output, and the content the run found      *)
(* stays a prefix of it.  A completed sequential run has appended exactly  *)
(* the surviving rows, so a second run on the un-truncated output of the   *)
(* first ends with the surviving rows twice; that differs from the single  *)
(* run exactly when at least one row survives.                             *)
(***************************************************************************)
IsPrefix(s, t) == Len(s) <= Len(t) /\ SubSeq(t, 1, Len(s)) = s

C15_Final ==
    (mode = "sequential" /\ pcMain = "Done") =>
        LET kept == Filtration(RowsOf(1, Len(input)))
        IN  /\ output = out0 \o kept
            /\ out0 \in EarlierRun(input) =>
                  /\ output = kept \o kept
                  /\ output # out0 <=> kept # <<>>

C15_AppendOnly ==
    /\ [](IsPrefix(out0, output))
    /\ [][IsPrefix(output, output')]_vars
    /\ []C15_Final

\* A second sequential run over two or more batches has completed on the
\* rows the first one left.
C15_Witness ==
    /\ mode = "sequential" /\ pcMain = "Done"
    /\ out0 # <<>> /\ out0 \in EarlierRun(input)
    /\ Len(emitted) >= 2

(***************************************************************************)
(* C16: every worker that acquires the lock releases it, so no worker      *)
(* waits for the lock for ever and pool.join() returns: while the main     *)
(* process is in pool.join() the run is never stuck (some step of the      *)
(* pool or of the main process is possible).                               *)
(***************************************************************************)
C16_JoinNeverStuck ==
    (mode = "concurrent" /\ pcMain = "Joining") => ENABLED Next

(***************************************************************************)
(* The whole-file process() of cell 18: one read_csv of the file, the four *)
(* masks on the whole frame, one to_csv(mode="a").  chunk is df, buf the   *)
(* rows of col_100_lt_05 not written yet; the chunk iterator is not used.  *)
(* SpecChunking runs either this process() or the chunked one of cell 20.  *)
(***************************************************************************)
InitChunking ==
    /\ mode \in {"whole", "sequential"}
    /\ input \in Inputs
    /\ chunksize \in (IF mode = "whole" THEN {1} ELSE 1..MaxChunk)
    /\ out0 \in PriorOutputs \cup EarlierRun(input)
    /\ output = out0
    /\ pos = 0
    /\ first_chunk = TRUE
    /\ emitted = <<>>
    /\ pcMain = "Idle"
    /\ err = "none"
    /\ chunk = <<>>
    /\ buf = <<>>
    /\ taskq = <<>>
    /\ wpc = [w \in Workers |-> "idle"]
    /\ wtask = [w \in Workers |-> NoTask]
    /\ wbuf = [w \in Workers |-> <<>>]
    /\ l = FALSE
    /\ failLen = -1

\* df = pd.read_csv(...): every data row is converted.
WholeRead ==
    /\ mode = "whole" /\ pcMain = "Idle"
    /\ AllCoercible
    /\ chunk' = RowsOf(1, Len(input))
    /\ pcMain' = "Filtering"
    /\ UNCHANGED <<configVars, output, readerVars, err, buf, poolVars, failLen>>

\* pd.read_csv raises ValueError on a field it cannot convert.
WholeReadRaise ==
    /\ mode = "whole" /\ pcMain = "Idle"
    /\ ~AllCoercible
    /\ pcMain' = "Raised"
    /\ err' = "ValueError"
    /\ UNCHANGED <<configVars, output, readerVars, chunk, buf, poolVars, failLen>>

\* Mutant: the col_3 mask is left out.
WholeFilterNoCol3 ==
    /\ mode = "whole" /\ pcMain = "Filtering"
    /\ buf' = col_100_lt_05(col2_gt_0(before_date(chunk)))
    /\ chunk' = <<>>
    /\ pcMain' = "Writing"
    /\ UNCHANGED <<configVars, output, readerVars, err, poolVars, failLen>>

\* The four masks on df; to_csv is entered with the surviving rows.
WholeFilter ==
    /\ mode = "whole" /\ pcMain = "Filtering"
    /\ buf' = Filtration(chunk)
    /\ chunk' = <<>>
    /\ pcMain' = "Writing"
    /\ UNCHANGED <<configVars, output, readerVars, err, poolVars, failLen>>

\* to_csv appends the next row of the frame to the file.
WholeWriteRow ==
    /\ mode = "whole" /\ pcMain = "Writing"
    /\ buf # <<>>
    /\ output' = Append(output, Head(buf))
    /\ buf' = Tail(buf)
    /\ UNCHANGED <<configVars, readerVars, pcMain, err, chunk, poolVars, failLen>>

\* to_csv raises: the exception leaves process().
WholeWriteFail ==
    /\ mode = "whole" /\ pcMain = "Writing"
    /\ pcMain' = "Raised"
    /\ err' = "WriteError"
    /\ failLen' = Len(output)
    /\ buf' = <<>>
    /\ UNCHANGED <<configVars, output, readerVars, chunk, poolVars>>

\* to_csv returns; print(...): process() returns.
WholeFinish ==
    /\ mode = "whole" /\ pcMain = "Writing"
    /\ buf = <<>>
    /\ pcMain' = "Done"
    /\ UNCHANGED <<configVars, output, readerVars, err, chunk, buf, poolVars, failLen>>

NextChunking ==
    \/ SeqStart
    \/ SeqRead
    \/ SeqReadRaise
    \/ SeqDrain
    \/ SeqFilter
    \/ SeqWriteRow
    \/ SeqWriteFail
    \/ SeqWriteReturn
    \/ SeqFinish
    \/ WholeRead
    \/ WholeReadRaise
    \/ WholeFilter
    \/ WholeWriteRow
    \/ WholeWriteFail
    \/ WholeFinish

SpecChunking == InitChunking /\ [][NextChunking]_vars

\* What the whole-file process() appends when no write fails.
WholeResult == IF AllCoercible THEN Filtration(RowsOf(1, Len(input))) ELSE <<>>

RunOver == pcMain \in {"Done", "Raised"} /\ failLen = -1

SeqEmptyWrite ==
    /\ mode = "sequential" /\ pcMain = "Writing"
    /\ Filtration(emitted[Len(emitted)]) = <<>>

WorkerEmptyWrite(w) == Writing(w) /\ Filtration(wtask[w].chunk) = <<>>

C18_Step ==
    /\ SeqEmptyWrite =>
          /\ output' = output
          /\ (pcMain' # pcMain /\ failLen' = failLen) => pcMain' = "Reading"
    /\ \A w \in Workers : WorkerEmptyWrite(w) =>
          /\ output' = output
          /\ (wpc'[w] # wpc[w] /\ failLen' = failLen) => (wpc'[w] = "idle" /\ ~l')

C18_OnlySurvivors ==
    mode \in {"sequential", "concurrent"} =>
        \A k \in DOMAIN Appended : Appended[k] \in Range(Filtration(Flatten(emitted)))

C18_EmptyBatchNoOp == []C18_OnlySurvivors /\ [][C18_Step]_vars

\* The sequential loop asks for a further batch after the write of a batch
\* none of whose rows survived, with rows of an earlier batch in the output.
C18_Witness ==
    /\ mode = "sequential" /\ pcMain = "Reading"
    /\ emitted # <<>> /\ ~Exhausted
    /\ emitted[Len(emitted)] # <<>>
    /\ Filtration(emitted[Len(emitted)]) = <<>>
    /\ Appended # <<>>

====
